---- MODULE Spec2Model ----
(***************************************************************************)
(* Model of IgxColumnComponent (igniteui-angular grid column): column      *)
(* pinning / unpinning against the owning grid's pinned and unpinned       *)
(* collections, the `editable` getter, and the column sizes of a           *)
(* multi-row layout (getInitialChildColumnSizes and its callers).          *)
(*                                                                         *)
(* Arrays are 1-based TLA+ sequences; every index that the code handles    *)
(* (arguments, indexOf results, splice positions) is kept 0-based as in    *)
(* the TypeScript source and converted at the point of access.             *)
(***************************************************************************)
EXTENDS Integers, Sequences, FiniteSets, TLC

\* ------------------------------------------------------------------ bounds
NumCols == 2
\* children of the column layout, and the last grid line a child may name
NumChildren == 3
MaxGridCol == 3

\* --------------------------------------------------------------- constants
\* `undefined` for an optional numeric value (index?: number, _unpinnedIndex)
Undefined == -9
\* `undefined` for a column reference (array read out of range)
NoColumn == 0
\* a width the grid can parse to pixels, in abstract units; NoWidth: none
NoWidth == 0
ColWidth == 2
\* width of the grid in the same units
GridWidth == 2
\* `null` and NaN for the numeric width of a size entry
NullWidth == -1
NaN == -2
\* the pixels of a width assigned to a column ('60px'), and of
\* grid.getPossibleColumnWidth() ('120px')
UserWidth == 60
PossibleColumnWidth == 120
\* `undefined` field / primary key
NoField == "<undefined>"

Cols == 1..NumCols
\* index arguments a caller may pass: omitted, negative, in and out of range
Indexes == {Undefined} \cup (-1..(NumCols - 1))
\* what an onColumnPinning handler may leave in args.insertAtIndex
\* (Undefined: no handler touches it; 0: a handler moves the column first)
HandlerIndexes == {Undefined, 0}
Fields == {"ID", "Name"}
TriState == {"undefined", "true", "false"}

VARIABLES
    _pinned,            \* column -> BOOLEAN            (IgxColumnComponent._pinned)
    _unpinnedIndex,     \* column -> index or Undefined  (IgxColumnComponent._unpinnedIndex)
    _hidden,            \* column -> BOOLEAN            (IgxColumnComponent._hidden)
    width,              \* column -> width               (IgxColumnComponent.width)
    _pinnedColumns,     \* grid._pinnedColumns
    _unpinnedColumns,   \* grid._unpinnedColumns
    columns,            \* grid.columns (columnList order)
    _init,              \* grid._init
    inEditMode,         \* the grid has a cell or a row in edit mode
    lastCall,           \* the call that has just returned, NoCall when none
    result,             \* what that pin()/unpin() returned
    events,             \* the events it emitted, in order
    _editable,          \* column -> TriState            (IgxColumnComponent._editable)
    hasGrid,            \* this.grid !== undefined
    primaryKey,         \* grid.primaryKey
    rowEditable,        \* grid.rowEditable
    transactionsEnabled, \* grid.transactions.enabled
    children,           \* columnLayout.children, in content order
    columnWidthSetByUser, \* grid.columnWidthSetByUser
    sizeCall,           \* the column-size method that has just returned
    sizes,              \* what it returned
    threw               \* it ended in a TypeError instead of returning

pinVars == <<_pinned, _unpinnedIndex, _hidden, width, _pinnedColumns,
             _unpinnedColumns, columns, _init, inEditMode, events, result,
             lastCall>>
editVars == <<_editable, hasGrid, primaryKey, rowEditable,
              transactionsEnabled>>
layoutVars == <<children, columnWidthSetByUser, sizeCall, sizes, threw>>
vars == <<pinVars, editVars, layoutVars>>

\* ------------------------------------------------------- JavaScript arrays
Min(a, b) == IF a < b THEN a ELSE b
Max(a, b) == IF a > b THEN a ELSE b

\* Array.prototype.indexOf: 0-based index of the first occurrence, or -1
IndexOf(s, x) ==
    IF \E i \in 1..Len(s) : s[i] = x
    THEN (CHOOSE i \in 1..Len(s) : s[i] = x /\ \A j \in 1..(i - 1) : s[j] # x) - 1
    ELSE -1

\* s[i] with a 0-based index; undefined outside the array
At(s, i) == IF i >= 0 /\ i < Len(s) THEN s[i + 1] ELSE NoColumn

\* the start position Array.prototype.splice uses for a given `start`
SpliceStart(s, start) ==
    IF start < 0 THEN Max(Len(s) + start, 0) ELSE Min(start, Len(s))

\* s.splice(start, 0, x)
SpliceIn(s, start, x) ==
    LET st == SpliceStart(s, start)
    IN  SubSeq(s, 1, st) \o <<x>> \o SubSeq(s, st + 1, Len(s))

\* s.splice(start, 1)
SpliceOut(s, start) ==
    LET st == SpliceStart(s, start)
    IN  SubSeq(s, 1, st) \o SubSeq(s, st + 2, Len(s))

\* s.filter(p) for a predicate given as the set of elements it accepts
RECURSIVE Filter(_, _)
Filter(s, keep) ==
    IF s = <<>> THEN <<>>
    ELSE (IF Head(s) \in keep THEN <<Head(s)>> ELSE <<>>) \o Filter(Tail(s), keep)

\* the number of times x occurs in s
Count(s, x) == Cardinality({i \in 1..Len(s) : s[i] = x})

\* insertion of x into a list sorted by its elements' index in ref,
\* after the elements that compare equal (a stable sort)
RECURSIVE InsertByIndex(_, _, _)
InsertByIndex(sorted, x, ref) ==
    IF sorted = <<>> THEN <<x>>
    ELSE IF IndexOf(ref, Head(sorted)) <= IndexOf(ref, x)
         THEN <<Head(sorted)>> \o InsertByIndex(Tail(sorted), x, ref)
         ELSE <<x>> \o sorted

\* s.sort((a, b) => ref.indexOf(a) - ref.indexOf(b))
RECURSIVE SortByIndex(_, _)
SortByIndex(s, ref) ==
    IF s = <<>> THEN <<>>
    ELSE InsertByIndex(SortByIndex(SubSeq(s, 1, Len(s) - 1), ref), s[Len(s)], ref)

\* ------------------------------------------------------------- the column
\* IgxColumnComponent.parent: the grid holds plain columns only
parent(c) == NoColumn

\* IgxColumnComponent.topLevelParent
topLevelParent(c) == parent(c)

\* IgxColumnComponent.columnGroup
columnGroup(c) == FALSE

\* IgxColumnComponent.field: column 1 and 2 are bound, column 3 has no field
field(c) == IF c = 1 THEN "ID" ELSE IF c = 2 THEN "Name" ELSE NoField

\* this.width && !isNaN(parseInt(this.width, 10))
hasPixelWidth(c) == width[c] # NoWidth

\* --------------------------------------------------------------- the grid
\* grid.pinnedColumns: the pinned columns that are not hidden
pinnedColumns == Filter(_pinnedColumns, {c \in Cols : ~_hidden[c]})

\* grid.pinnedWidth: the width of the pinned area
RECURSIVE SumWidth(_)
SumWidth(s) == IF s = <<>> THEN 0 ELSE width[Head(s)] + SumWidth(Tail(s))
pinnedWidth == SumWidth(pinnedColumns)

\* grid._moveColumns(from, to) with no drop position:
\* list.splice(toIndex, 0, ...list.splice(fromIndex, 1))
_moveColumns(list, from, to) ==
    LET fromIndex == IndexOf(list, from)
        toIndex   == IF to = NoColumn THEN -1 ELSE IndexOf(list, to)
    IN  SpliceIn(SpliceOut(list, fromIndex), toIndex, from)

\* grid.reinitPinStates() on a grid without column groups.  The grid's code
\* is not part of the sources at hand and the library has shipped two forms
\* of it; v selects the form:
\*   "filter": _unpinnedColumns = columnList.filter(c => !c.pinned), and
\*             _pinnedColumns is left as it is (it is rebuilt only when the
\*             grid has column groups);
\*   "sort":   both collections are rebuilt from the column list by the
\*             pinned flag and sorted by the position they had before.
ReinitForms == {"filter", "sort"}
reinitPinStates(v, pinnedFlag, pinnedCols, unpinnedCols, list) ==
    LET pinnedNow   == Filter(list, {c \in Cols : pinnedFlag[c]})
        unpinnedNow == Filter(list, {c \in Cols : ~pinnedFlag[c]})
    IN  IF v = "filter"
        THEN [pinnedColumns   |-> pinnedCols,
              unpinnedColumns |-> unpinnedNow]
        ELSE [pinnedColumns   |-> SortByIndex(pinnedNow, pinnedCols),
              unpinnedColumns |-> SortByIndex(unpinnedNow, unpinnedCols)]

\* grid.endEdit(): the grid leaves edit mode
endEdit == FALSE

\* ------------------------------------------------------------------ events
Event(name, c, insertAtIndex, value) ==
    [name |-> name, column |-> c, insertAtIndex |-> insertAtIndex, value |-> value]

\* the state a call leaves untouched
Untouched(ret) ==
    [ret |-> ret, pinned |-> _pinned, unpinnedIndex |-> _unpinnedIndex,
     pinnedColumns |-> _pinnedColumns, unpinnedColumns |-> _unpinnedColumns,
     columns |-> columns, events |-> <<>>]

\* --------------------------------------------------------------------- pin
\* IgxColumnComponent.pinnable
pinnable(c) == _init \/ ~_pinned[c]

\* mutation: the guard on a pinned column is lost
PinAlreadyPinned_Never(c) == FALSE

\* if (this._pinned) return false
PinAlreadyPinned(c) == _pinned[c]

\* mutation: the upper bound is off by one (> for >=)
PinIndexOutOfRange_OffByOne(index) ==
    index # Undefined /\ (index < 0 \/ index > Len(pinnedColumns))

\* hasIndex && (index < 0 || index >= grid.pinnedColumns.length)
PinIndexOutOfRange(index) ==
    index # Undefined /\ (index < 0 \/ index >= Len(pinnedColumns))

\* index = index !== undefined ? index : grid._pinnedColumns.length
PinTargetIndex(index) ==
    IF index # Undefined THEN index ELSE Len(_pinnedColumns)

\* grid._pinnedColumns after the insertion at args.insertAtIndex
PinInsert(c, insertAtIndex) ==
    IF IndexOf(_pinnedColumns, c) = -1
    THEN SpliceIn(_pinnedColumns, insertAtIndex, c)
    ELSE _pinnedColumns

\* mutation: the column is not taken out of the unpinned collection
PinRemove_Keeps(c) == _unpinnedColumns

\* grid._unpinnedColumns after the column is taken out of it
PinRemove(c) ==
    IF IndexOf(_pinnedColumns, c) = -1 /\ IndexOf(_unpinnedColumns, c) # -1
    THEN SpliceOut(_unpinnedColumns, IndexOf(_unpinnedColumns, c))
    ELSE _unpinnedColumns

\* the part of pin() after its guards; h is what the onColumnPinning
\* handlers leave in args.insertAtIndex
PinDo(c, index, h) ==
    LET idx          == PinTargetIndex(index)
        targetColumn == At(_pinnedColumns, idx)
        insertAt     == IF h = Undefined THEN idx ELSE h
    IN  [ret             |-> TRUE,
         pinned          |-> [_pinned EXCEPT ![c] = TRUE],
         unpinnedIndex   |-> [_unpinnedIndex EXCEPT ![c] = IndexOf(_unpinnedColumns, c)],
         pinnedColumns   |-> PinInsert(c, insertAt),
         unpinnedColumns |-> PinRemove(c),
         columns         |-> IF index # Undefined
                             THEN _moveColumns(columns, c, targetColumn)
                             ELSE columns,
         events          |-> <<Event("pinnedChange", c, Undefined, TRUE),
                               Event("onColumnPinning", c, idx, TRUE)>>]

\* IgxColumnComponent.pin(index?)
RECURSIVE pin(_, _, _)
pin(c, index, h) ==
    IF PinAlreadyPinned(c) THEN Untouched(FALSE)
    ELSE IF parent(c) # NoColumn /\ ~_pinned[parent(c)]
         THEN pin(topLevelParent(c), index, h)
    ELSE IF PinIndexOutOfRange(index) THEN Untouched(FALSE)
    ELSE IF parent(c) = NoColumn /\ ~pinnable(c) THEN Untouched(FALSE)
    ELSE PinDo(c, index, h)

\* ------------------------------------------------------------------- unpin
\* mutation: the guard on a column that is not pinned is lost
UnpinNotPinned_Never(c) == FALSE

\* if (!this._pinned) return false
UnpinNotPinned(c) == ~_pinned[c]

\* mutation: the upper bound is off by one (> for >=)
UnpinIndexOutOfRange_OffByOne(index) ==
    index # Undefined /\ (index < 0 \/ index > Len(_unpinnedColumns))

\* hasIndex && (index < 0 || index >= grid._unpinnedColumns.length)
UnpinIndexOutOfRange(index) ==
    index # Undefined /\ (index < 0 \/ index >= Len(_unpinnedColumns))

\* index !== undefined ? index :
\*     this._unpinnedIndex !== undefined ? this._unpinnedIndex : this.index
UnpinTargetIndex(c, index) ==
    IF index # Undefined THEN index
    ELSE IF _unpinnedIndex[c] # Undefined THEN _unpinnedIndex[c]
    ELSE IndexOf(columns, c)

\* grid._unpinnedColumns.splice(index, 0, this)
UnpinInsert(c, idx) == SpliceIn(_unpinnedColumns, idx, c)

\* mutation: the column is not taken out of the pinned collection
UnpinRemove_Keeps(c) == _pinnedColumns

\* grid._pinnedColumns after the column is taken out of it
UnpinRemove(c) ==
    IF IndexOf(_pinnedColumns, c) # -1
    THEN SpliceOut(_pinnedColumns, IndexOf(_pinnedColumns, c))
    ELSE _pinnedColumns

\* the part of unpin() after its guards; v is the form of reinitPinStates
UnpinDo(c, index, v) ==
    LET idx          == UnpinTargetIndex(c, index)
        targetColumn == At(_unpinnedColumns, idx)
        flags        == [_pinned EXCEPT ![c] = FALSE]
        list         == IF index # Undefined
                        THEN _moveColumns(columns, c, targetColumn)
                        ELSE columns
        re           == reinitPinStates(v, flags, UnpinRemove(c), UnpinInsert(c, idx), list)
    IN  [ret             |-> TRUE,
         pinned          |-> flags,
         unpinnedIndex   |-> _unpinnedIndex,
         pinnedColumns   |-> re.pinnedColumns,
         unpinnedColumns |-> re.unpinnedColumns,
         columns         |-> list,
         events          |-> <<Event("pinnedChange", c, Undefined, FALSE),
                               Event("onColumnPinning", c,
                                     IndexOf(re.unpinnedColumns, c), FALSE)>>]

\* IgxColumnComponent.unpin(index?)
RECURSIVE unpin(_, _, _)
unpin(c, index, v) ==
    IF UnpinNotPinned(c) THEN Untouched(FALSE)
    ELSE IF parent(c) # NoColumn /\ _pinned[parent(c)]
         THEN unpin(topLevelParent(c), index, v)
    ELSE IF UnpinIndexOutOfRange(index) THEN Untouched(FALSE)
    ELSE UnpinDo(c, index, v)

\* ---------------------------------------------------------------- editable
\* this.grid && this.grid.rowEditable
gridRowEditable ==
    IF ~hasGrid THEN "undefined" ELSE IF rowEditable THEN "true" ELSE "false"

\* this.grid && this.grid.transactions.enabled
hasTransactions ==
    IF ~hasGrid THEN "undefined" ELSE IF transactionsEnabled THEN "true" ELSE "false"

\* IgxColumnComponent.isPrimaryColumn
isPrimaryColumn(c) == field(c) # NoField /\ hasGrid /\ field(c) = primaryKey

\* mutation: only row editing locks the primary key column
editable_IgnoresTransactions(c) ==
    IF isPrimaryColumn(c) /\ gridRowEditable = "true"
    THEN "false"
    ELSE IF _editable[c] # "undefined" THEN _editable[c]
    ELSE gridRowEditable

\* IgxColumnComponent.editable (getter)
editable(c) ==
    IF isPrimaryColumn(c) /\ (gridRowEditable = "true" \/ hasTransactions = "true")
    THEN "false"
    ELSE IF _editable[c] # "undefined" THEN _editable[c]
    ELSE gridRowEditable

\* ----------------------------------------------------------------- actions
\* a call as its caller sees it: the operation, the column, the index
\* argument and the column's pinned flag when the call was made
Call(op, c, index) ==
    [op |-> op, column |-> c, index |-> index,
     wasPinned |-> IF c = NoColumn THEN FALSE ELSE _pinned[c]]
NoCall == [op |-> "none", column |-> NoColumn, index |-> Undefined, wasPinned |-> FALSE]

\* calls are made one at a time, each after the one before has returned
\* and its outcome has been taken
Idle == lastCall = NoCall

Apply(r) ==
    /\ _pinned' = r.pinned
    /\ _unpinnedIndex' = r.unpinnedIndex
    /\ _pinnedColumns' = r.pinnedColumns
    /\ _unpinnedColumns' = r.unpinnedColumns
    /\ columns' = r.columns
    /\ events' = r.events

\* column.pin(index): grid.endEdit(true), then the pinning
Pin(c, index) ==
    \E h \in HandlerIndexes :
        /\ Idle /\ hasGrid
        /\ Apply(pin(c, index, h))
        /\ result' = pin(c, index, h).ret
        /\ inEditMode' = endEdit
        /\ lastCall' = Call("pin", c, index)
        /\ UNCHANGED <<_hidden, width, _init, editVars, layoutVars>>

\* column.unpin(index)
Unpin(c, index) ==
    \E v \in ReinitForms :
        /\ Idle /\ hasGrid
        /\ Apply(unpin(c, index, v))
        /\ result' = unpin(c, index, v).ret
        /\ inEditMode' = endEdit
        /\ lastCall' = Call("unpin", c, index)
        /\ UNCHANGED <<_hidden, width, _init, editVars, layoutVars>>

\* column.pinned = value, the setter taking the pin()/unpin() path
SetPinnedViaCall(c, value) ==
    /\ Idle
    /\ _pinned[c] # value
    /\ hasGrid /\ hasPixelWidth(c)
    /\ \/ value /\ \E h \in HandlerIndexes : Apply(pin(c, Undefined, h))
       \/ ~value /\ \E v \in ReinitForms : Apply(unpin(c, Undefined, v))
    /\ inEditMode' = endEdit
    /\ lastCall' = Call("setPinned", c, Undefined)
    /\ UNCHANGED <<_hidden, width, _init, result, editVars, layoutVars>>

\* column.pinned = value, no width available: only the flag is set
SetPinnedDirect(c, value) ==
    /\ Idle
    /\ _pinned[c] # value
    /\ ~(hasGrid /\ hasPixelWidth(c))
    /\ _unpinnedIndex' = [_unpinnedIndex EXCEPT ![c] =
            IF hasGrid
            THEN IndexOf(Filter(columns, {x \in Cols : ~_pinned[x]}), c)
            ELSE 0]
    /\ _pinned' = [_pinned EXCEPT ![c] = value]
    /\ events' = <<Event("pinnedChange", c, Undefined, value)>>
    /\ lastCall' = Call("setPinned", c, Undefined)
    /\ UNCHANGED <<_hidden, width, _pinnedColumns, _unpinnedColumns, columns,
                   _init, inEditMode, result, editVars, layoutVars>>

\* column.hidden = value
SetHidden(c, value) ==
    /\ Idle
    /\ _hidden[c] # value
    /\ _hidden' = [_hidden EXCEPT ![c] = value]
    /\ events' = <<Event("hiddenChange", c, Undefined, value)>>
    /\ inEditMode' = IF hasGrid THEN endEdit ELSE inEditMode
    /\ lastCall' = Call("setHidden", c, Undefined)
    /\ UNCHANGED <<_pinned, _unpinnedIndex, width, _pinnedColumns,
                   _unpinnedColumns, columns, _init, result, editVars, layoutVars>>

\* the user puts a cell in edit mode
BeginEdit ==
    /\ Idle
    /\ ~inEditMode
    /\ inEditMode' = TRUE
    /\ lastCall' = Call("beginEdit", NoColumn, Undefined)
    /\ UNCHANGED <<_pinned, _unpinnedIndex, _hidden, width, _pinnedColumns,
                   _unpinnedColumns, columns, _init, result, events, editVars, layoutVars>>

\* the grid finishes its initialisation: every column that has no width is
\* given the default width the grid derives, initPinning() sets up both
\* collections from the columns' pinned flags, and _init is cleared
GridInitDone ==
    /\ Idle
    /\ _init
    /\ _init' = FALSE
    /\ width' = [c \in Cols |-> ColWidth]
    /\ _pinnedColumns' = Filter(columns, {c \in Cols : _pinned[c]})
    /\ _unpinnedColumns' = Filter(columns, {c \in Cols : ~_pinned[c]})
    /\ events' = <<>>
    /\ lastCall' = Call("gridInitDone", NoColumn, Undefined)
    /\ UNCHANGED <<_pinned, _unpinnedIndex, _hidden, columns, inEditMode,
                   result, editVars, layoutVars>>

\* the caller takes the outcome of the call that has returned
Return ==
    /\ ~Idle
    /\ lastCall' = NoCall
    /\ result' = FALSE
    /\ events' = <<>>
    /\ UNCHANGED <<_pinned, _unpinnedIndex, _hidden, width, _pinnedColumns,
                   _unpinnedColumns, columns, _init, inEditMode, editVars, layoutVars>>

\* column.editable = value
SetEditable(c, value) ==
    /\ _editable' = [_editable EXCEPT ![c] = value]
    /\ UNCHANGED <<hasGrid, primaryKey, rowEditable, transactionsEnabled, pinVars, layoutVars>>

\* the grid registers with the API service the column reads it from
AttachGrid ==
    /\ ~hasGrid
    /\ hasGrid' = TRUE
    /\ UNCHANGED <<_editable, primaryKey, rowEditable, transactionsEnabled, pinVars, layoutVars>>

\* grid.primaryKey = key
SetPrimaryKey(key) ==
    /\ primaryKey' = key
    /\ UNCHANGED <<_editable, hasGrid, rowEditable, transactionsEnabled, pinVars, layoutVars>>

\* grid.rowEditable = value
SetRowEditable(value) ==
    /\ rowEditable' = value
    /\ UNCHANGED <<_editable, hasGrid, primaryKey, transactionsEnabled, pinVars, layoutVars>>

\* the grid's transaction service is enabled or disabled
SetTransactions(value) ==
    /\ transactionsEnabled' = value
    /\ UNCHANGED <<_editable, hasGrid, primaryKey, rowEditable, pinVars, layoutVars>>

\* ------------------------------------------------- multi-row layout sizes
\* The children of a column layout and the size array that
\* getInitialChildColumnSizes builds from them.
\*
\* A string or number value of the code (a width: '60px', 120, null,
\* undefined) is a record [n, unit]; the size array's `width` is a number,
\* NullWidth for null and NaN for NaN.  Pixel widths are multiples of 60,
\* so `width / colSpan` is exact for every span up to 6.

\* F(x), with x evaluated once and before F: the statements of the code
\* run in sequence, each on the result of the one before
ApplyTo(F(_), x) == CHOOSE r \in {F(v) : v \in {x}} : TRUE

\* a plain number
Num(n) == [n |-> n, unit |-> ""]
\* the string n + 'px'
Px(n) == [n |-> n, unit |-> "px"]
Null == [n |-> 0, unit |-> "null"]
UndefinedValue == [n |-> 0, unit |-> "undefined"]

\* truthiness of such a value: null, undefined and the number 0 are falsy,
\* a non-empty string is truthy
Truthy(v) ==
    /\ v.unit \notin {"null", "undefined"}
    /\ (v.unit = "" => v.n # 0)

\* parseInt(v, 10)
parseInt(v) == IF v.unit \in {"null", "undefined"} THEN NaN ELSE v.n

\* !w for a number-or-null w
Falsy(w) == w \in {NullWidth, NaN, 0}

\* w / s for a number-or-null w and a number s # 0
Divide(w, s) ==
    IF w = NaN THEN NaN
    ELSE IF w = NullWidth THEN 0
    ELSE w \div s

\* a column as the constructor leaves it, with colStart / colEnd bound in
\* the template (0: not bound)
NewChild(colStart, colEnd) ==
    [colStart |-> colStart, colEnd |-> colEnd, widthSetByUser |-> FALSE,
     _width |-> UndefinedValue, _calcWidth |-> Null, calcPixelWidth |-> NaN]

ChildIds == 1..NumChildren
ColStarts == 1..MaxGridCol
ColEnds == 0..MaxGridCol
\* widths assigned to a column (pixel widths; a percentage width would have
\* unit "%")
Widths == {Px(UserWidth)}

\* column.defaultWidth: the grid has given none
defaultWidth == UndefinedValue

\* grid.getPossibleColumnWidth()
getPossibleColumnWidth == Px(PossibleColumnWidth)

\* grid.featureColumnsWidth()
featureColumnsWidth == 0

\* get width()
childWidth(col) == IF col.widthSetByUser THEN col._width ELSE defaultWidth

\* mutation: caching the width also marks it as set by the user, as the
\* width setter does
cacheCalcWidth_MarksWidthSet(col) ==
    LET colWidth == childWidth(col)
        isPercentageWidth == Truthy(colWidth) /\ colWidth.unit = "%"
        calc == IF isPercentageWidth
                  THEN Num((parseInt(colWidth) * (GridWidth - featureColumnsWidth)) \div 100)
                ELSE IF ~Truthy(colWidth)
                  THEN (IF Truthy(defaultWidth) THEN defaultWidth
                                                ELSE getPossibleColumnWidth)
                ELSE childWidth(col)
    IN  [col EXCEPT !._calcWidth = calc, !.calcPixelWidth = parseInt(calc),
                    !.widthSetByUser = TRUE]

\* cacheCalcWidth(): the column with its cache written
cacheCalcWidth(col) ==
    LET colWidth == childWidth(col)
        isPercentageWidth == Truthy(colWidth) /\ colWidth.unit = "%"
        calc == IF isPercentageWidth
                  THEN Num((parseInt(colWidth) * (GridWidth - featureColumnsWidth)) \div 100)
                ELSE IF ~Truthy(colWidth)
                  THEN (IF Truthy(defaultWidth) THEN defaultWidth
                                                ELSE getPossibleColumnWidth)
                ELSE childWidth(col)
    IN  [col EXCEPT !._calcWidth = calc, !.calcPixelWidth = parseInt(calc)]

\* getCalcWidth() / get calcWidth(): the value and the column afterwards
getCalcWidth(col) ==
    IF col._calcWidth # Null /\ col.calcPixelWidth # NaN
    THEN [value |-> col._calcWidth, col |-> col]
    ELSE LET cached == cacheCalcWidth(col)
         IN  [value |-> cached._calcWidth, col |-> cached]

\* get gridColumnSpan()
gridColumnSpan(col) ==
    IF col.colEnd # 0 /\ col.colStart # 0 THEN col.colEnd - col.colStart ELSE 1

\* The array under construction.  arr maps an index to the object stored
\* there (0: nothing stored), len is its length, heap holds the objects so
\* that two indexes can share one object, kids are the children with their
\* caches.  A negative index is an ordinary property of a JavaScript array:
\* it can be written and read, and does not count towards the length.
ArrayIndexes == (0 - MaxGridCol - 1)..(MaxGridCol + 1)
EmptySizes(kids) ==
    [arr |-> [i \in ArrayIndexes |-> 0], len |-> 0, heap |-> <<>>, kids |-> kids]

SlotId(st, i) == IF i \in ArrayIndexes THEN st.arr[i] ELSE 0
HasEntry(st, i) == SlotId(st, i) # 0
Entry(st, i) == st.heap[SlotId(st, i)]
\* columnSizes[i] = <the object id>
SetEntry(st, i, id) ==
    [st EXCEPT !.arr[i] = id, !.len = IF i >= st.len THEN i + 1 ELSE st.len]
\* columnSizes[i] = { ... }
SetNewEntry(st, i, info) ==
    SetEntry([st EXCEPT !.heap = Append(st.heap, info)], i, Len(st.heap) + 1)

\* the object literal { ref: col, width: ..., colSpan: ..., colEnd: ...,
\* widthSetByUser: ... } for child k, and the children after its evaluation
ChildInfo(st, k) ==
    LET col == st.kids[k]
        readsWidth == col.widthSetByUser \/ columnWidthSetByUser
        calc == getCalcWidth(col)
    IN  [info |-> [ref |-> k,
                   width |-> IF readsWidth THEN parseInt(calc.value) ELSE NullWidth,
                   colSpan |-> gridColumnSpan(col),
                   colEnd |-> col.colStart + gridColumnSpan(col),
                   widthSetByUser |-> col.widthSetByUser],
         kids |-> IF readsWidth THEN [st.kids EXCEPT ![k] = calc.col] ELSE st.kids]

\* columnSizes[i] = { ref: col, ... }
PutChild(st, k, i) ==
    ApplyTo(LAMBDA made : SetNewEntry([st EXCEPT !.kids = made.kids], i, made.info),
            ChildInfo(st, k))

\* for (i = ...; i < columnSizes[slot].colEnd - 1; i++): the places the
\* replaced column leaves uncovered get the old object itself
RECURSIVE FillWithOld(_, _, _)
FillWithOld(st, slot, i) ==
    IF i < Entry(st, slot).colEnd - 1
    THEN IF ~HasEntry(st, i) \/ ~Entry(st, i).widthSetByUser
         THEN ApplyTo(LAMBDA s : FillWithOld(s, slot, i + 1),
                      SetEntry(st, i, SlotId(st, slot)))
         ELSE st
    ELSE st

\* for (i = ...; i < col.colStart - 1 + col.gridColumnSpan; i++): the
\* places after the smaller column get a new object for child k each
RECURSIVE FillWithNew(_, _, _, _)
FillWithNew(st, k, i, end) ==
    IF i < end
    THEN IF ~HasEntry(st, i) \/ ~Entry(st, i).widthSetByUser
         THEN ApplyTo(LAMBDA s : FillWithNew(s, k, i + 1, end),
                      PutChild(st, k, i))
         ELSE st
    ELSE st

\* the body of children.forEach(col => ...) for child k
PlaceChild(st, k) ==
    LET col == st.kids[k]
        slot == col.colStart - 1
        span == gridColumnSpan(col)
        has == HasEntry(st, slot)
        old == Entry(st, slot)
        newWidthSet == col.widthSetByUser /\ has /\ ~old.widthSetByUser
        newSpanSmaller == has /\ old.colSpan > span
        bothWidthsSet == col.widthSetByUser /\ has /\ old.widthSetByUser
        bothWidthsNotSet == ~col.widthSetByUser /\ has /\ ~old.widthSetByUser
    IN  IF col.colStart = 0 THEN st
        ELSE IF ~has THEN PutChild(st, k, slot)
        ELSE IF newWidthSet
                \/ (newSpanSmaller /\ (bothWidthsSet \/ bothWidthsNotSet))
          THEN ApplyTo(LAMBDA s : PutChild(s, k, slot),
                       IF bothWidthsSet /\ newSpanSmaller
                         THEN FillWithOld(st, slot, slot + span)
                         ELSE st)
        ELSE IF bothWidthsSet /\ old.colSpan < span
          THEN FillWithNew(st, k, slot + old.colSpan, slot + span)
        ELSE st

\* children.forEach(...)
RECURSIVE PlaceChildren(_, _)
PlaceChildren(st, k) ==
    IF k > Len(st.kids) THEN st
    ELSE ApplyTo(LAMBDA s : PlaceChildren(s, k + 1), PlaceChild(st, k))

\* the test that ends the inner loop of the flattening at columnSizes[i + j]
StopsFill(cur, next) ==
    \/ Falsy(cur.width) /\ ~Falsy(next.width)
    \/ Falsy(cur.width) /\ Falsy(next.width) /\ next.colSpan <= cur.colSpan
    \/ ~Falsy(next.width) /\ next.colSpan <= cur.colSpan

\* for (; j < colSpan && i + j + 1 < colEnd; j++): the array and the j the
\* loop ends with
RECURSIVE FlattenFill(_, _, _)
FlattenFill(st, i, j) ==
    LET cur == Entry(st, i)
    IN  IF j < cur.colSpan /\ i + j + 1 < cur.colEnd
        THEN IF HasEntry(st, i + j) /\ StopsFill(cur, Entry(st, i + j))
             THEN [st |-> st, j |-> j]
             ELSE ApplyTo(LAMBDA s : FlattenFill(s, i, j + 1),
                    SetNewEntry(st, i + j,
                        [ref |-> cur.ref,
                         width |-> IF cur.widthSetByUser
                                     THEN Divide(cur.width, cur.colSpan)
                                     ELSE cur.width,
                         colSpan |-> 1,
                         colEnd |-> cur.colEnd,
                         widthSetByUser |-> cur.widthSetByUser]))
        ELSE [st |-> st, j |-> j]

\* mutation: the width is divided but colSpan is left as it was
FlattenEntry_KeepsSpan(st, i) ==
    LET cur == Entry(st, i)
    IN  [st EXCEPT !.heap[SlotId(st, i)] =
            [cur EXCEPT !.width = IF cur.widthSetByUser
                                    THEN Divide(cur.width, cur.colSpan)
                                    ELSE cur.width]]

\* columnSizes[i].width = ...; columnSizes[i].colSpan = 1: the object is
\* updated in place, under every index that holds it
FlattenEntry(st, i) ==
    LET cur == Entry(st, i)
    IN  [st EXCEPT !.heap[SlotId(st, i)] =
            [cur EXCEPT !.width = IF cur.widthSetByUser
                                    THEN Divide(cur.width, cur.colSpan)
                                    ELSE cur.width,
                        !.colSpan = 1]]

\* for (let i = 0; i < columnSizes.length; i++) { ... i += j - 1; }
RECURSIVE Flatten(_, _)
Flatten(st, i) ==
    IF i >= st.len THEN st
    ELSE IF HasEntry(st, i) /\ Entry(st, i).colSpan > 1
      THEN ApplyTo(LAMBDA filled :
                     ApplyTo(LAMBDA s : Flatten(s, i + (filled.j - 1) + 1),
                             FlattenEntry(filled.st, i)),
                   FlattenFill(st, i, 1))
    ELSE Flatten(st, i + 1)

\* an index of the returned array that holds nothing
NoEntry ==
    [ref |-> 0, width |-> NullWidth, colSpan |-> 0, colEnd |-> 0,
     widthSetByUser |-> FALSE]

\* the array as the caller sees it: its elements 0 .. length - 1
SizeArray(st) ==
    [i \in 1..st.len |-> IF HasEntry(st, i - 1) THEN Entry(st, i - 1) ELSE NoEntry]

\* getInitialChildColumnSizes(children): the array it returns and the
\* children afterwards
getInitialChildColumnSizes(kids) ==
    ApplyTo(LAMBDA st : [sizes |-> SizeArray(st), kids |-> st.kids],
            ApplyTo(LAMBDA placed : Flatten(placed, 0),
                    PlaceChildren(EmptySizes(kids), 1)))

\* getFilledChildColumnSizes(children)
FilledSizes(columnSizes) ==
    [i \in 1..Len(columnSizes) |->
        IF columnSizes[i] # NoEntry /\ ~Falsy(columnSizes[i].width)
        THEN Px(columnSizes[i].width)
        ELSE Px(parseInt(getPossibleColumnWidth))]

getFilledChildColumnSizes(kids) ==
    ApplyTo(LAMBDA initial :
                [sizes |-> FilledSizes(initial.sizes), kids |-> initial.kids],
            getInitialChildColumnSizes(kids))

\* the second loop of getResizableColUnderEnd: neighbouring targets of one
\* field become one target
RECURSIVE Squash(_, _, _)
Squash(targets, j, squashed) ==
    IF j > Len(targets) THEN squashed
    ELSE IF Len(squashed) > 0
            /\ field(squashed[Len(squashed)].target) = field(targets[j].target)
      THEN ApplyTo(LAMBDA s : Squash(targets, j + 1, s),
                   [squashed EXCEPT ![Len(squashed)].spanUsed = @ + 1])
    ELSE ApplyTo(LAMBDA s : Squash(targets, j + 1, s),
                 Append(squashed, targets[j]))

\* a child of a column layout: columnLayoutChild, neither a layout nor a group
columnLayoutChild(k) == k \in ChildIds

\* the first loop of getResizableColUnderEnd for the child `this`: the
\* indexes i of columnSized with colStart <= i + 1 < colEnd, in order
RECURSIVE UnderEnd(_, _, _, _)
UnderEnd(this, columnSized, i, found) ==
    LET colEnd == IF this.colEnd # 0 THEN this.colEnd ELSE this.colStart + 1
    IN  IF i >= Len(columnSized) THEN found
        ELSE IF this.colStart # 0 /\ this.colStart <= i + 1 /\ i + 1 < colEnd
          THEN ApplyTo(LAMBDA f : UnderEnd(this, columnSized, i + 1, f),
                       Append(found, i))
        ELSE UnderEnd(this, columnSized, i + 1, found)

\* what getResizableColUnderEnd makes of the size array: a TypeError when
\* one of the indexes holds nothing (columnSized[i].ref), else the targets
ResizeTargets(this, columnSized) ==
    ApplyTo(LAMBDA under :
                IF \E n \in 1..Len(under) : columnSized[under[n] + 1] = NoEntry
                THEN [sizes |-> <<>>, threw |-> TRUE]
                ELSE [sizes |-> Squash([n \in 1..Len(under) |->
                                          [target |-> columnSized[under[n] + 1].ref,
                                           spanUsed |-> 1]],
                                       1, <<>>),
                      threw |-> FALSE],
            UnderEnd(this, columnSized, 0, <<>>))

\* getResizableColUnderEnd() of child k: what it returns, whether it ends
\* in a TypeError, and the children afterwards
getResizableColUnderEnd(kids, k) ==
    IF ~columnLayoutChild(k) \/ columnGroup(k)
    THEN [sizes |-> <<[target |-> k, spanUsed |-> 1]>>, threw |-> FALSE,
          kids |-> kids]
    ELSE ApplyTo(LAMBDA initial :
                    ApplyTo(LAMBDA r : [sizes |-> r.sizes, threw |-> r.threw,
                                        kids |-> initial.kids],
                            ResizeTargets(kids[k], initial.sizes)),
                 getInitialChildColumnSizes(kids))

\* a column-size method may be called when none has just returned, or
\* again right after it returned
SizeCall(op, k) == [op |-> op, child |-> k]
NoSizeCall == SizeCall("none", 0)
MayCall(op) == sizeCall \in {NoSizeCall, SizeCall(op, 0)}

\* columnLayout.getInitialChildColumnSizes(columnLayout.children)
GetInitialChildColumnSizes ==
    /\ MayCall("getInitialChildColumnSizes")
    /\ \E r \in {getInitialChildColumnSizes(children)} :
        /\ sizeCall' = SizeCall("getInitialChildColumnSizes", 0)
        /\ sizes' = r.sizes
        /\ threw' = FALSE
        /\ children' = r.kids
        /\ UNCHANGED <<columnWidthSetByUser, pinVars, editVars>>

\* columnLayout.getFilledChildColumnSizes(columnLayout.children)
GetFilledChildColumnSizes ==
    /\ MayCall("getFilledChildColumnSizes")
    /\ \E r \in {getFilledChildColumnSizes(children)} :
        /\ sizeCall' = SizeCall("getFilledChildColumnSizes", 0)
        /\ sizes' = r.sizes
        /\ threw' = FALSE
        /\ children' = r.kids
        /\ UNCHANGED <<columnWidthSetByUser, pinVars, editVars>>

\* child.getResizableColUnderEnd()
GetResizableColUnderEnd(k) ==
    /\ sizeCall = NoSizeCall
    /\ \E r \in {getResizableColUnderEnd(children, k)} :
        /\ sizeCall' = SizeCall("getResizableColUnderEnd", k)
        /\ sizes' = r.sizes
        /\ threw' = r.threw
        /\ children' = r.kids
        /\ UNCHANGED <<columnWidthSetByUser, pinVars, editVars>>

\* child.width = value, on a column whose grid is there (nothing in the
\* model listens to widthChange)
SetChildWidth(k, value) ==
    /\ sizeCall = NoSizeCall
    /\ Truthy(value)
    /\ children' = [children EXCEPT ![k] =
            cacheCalcWidth([@ EXCEPT !._calcWidth = Null,
                                     !.calcPixelWidth = NaN,
                                     !.widthSetByUser = TRUE,
                                     !._width = value])]
    /\ UNCHANGED <<columnWidthSetByUser, sizeCall, sizes, threw, pinVars, editVars>>

\* the caller is done with what the method returned
SizeReturn ==
    /\ sizeCall # NoSizeCall
    /\ sizeCall' = NoSizeCall
    /\ sizes' = <<>>
    /\ threw' = FALSE
    /\ UNCHANGED <<children, columnWidthSetByUser, pinVars, editVars>>

\* ---------------------------------------------------------- specifications
InitPin ==
    /\ _pinned = [c \in Cols |-> FALSE]
    /\ _unpinnedIndex = [c \in Cols |-> Undefined]
    /\ _hidden = [c \in Cols |-> FALSE]
    /\ width = [c \in Cols |-> IF c = 1 THEN ColWidth ELSE NoWidth]
    /\ _pinnedColumns = <<>>
    /\ _unpinnedColumns = [i \in 1..NumCols |-> i]
    /\ columns = [i \in 1..NumCols |-> i]
    /\ _init = TRUE
    /\ inEditMode = FALSE
    /\ events = <<>>
    /\ result = FALSE
    /\ lastCall = NoCall

InitEditable ==
    /\ _editable = [c \in Cols |-> "undefined"]
    /\ primaryKey = NoField
    /\ rowEditable = FALSE
    /\ transactionsEnabled = FALSE

\* a grid without a column layout
InitNoLayout ==
    /\ children = <<>>
    /\ columnWidthSetByUser = FALSE
    /\ sizeCall = NoSizeCall
    /\ sizes = <<>>
    /\ threw = FALSE

\* a grid that has collected its columns, none of them pinned, and has yet
\* to finish its initialisation; the first column has its width set in the
\* template, the others wait for the default width
Init == InitPin /\ InitEditable /\ InitNoLayout /\ hasGrid = TRUE

Next ==
    \/ \E c \in Cols, index \in Indexes : Pin(c, index)
    \/ \E c \in Cols, index \in Indexes : Unpin(c, index)
    \/ \E c \in Cols, value \in BOOLEAN : SetPinnedViaCall(c, value)
    \/ \E c \in Cols, value \in BOOLEAN : SetPinnedDirect(c, value)
    \/ BeginEdit
    \/ GridInitDone
    \/ Return

Spec == Init /\ [][Next]_vars

\* the same grid with its columns being hidden and shown while they are
\* pinned and unpinned through pin() and unpin()
NextHidden ==
    \/ \E c \in Cols, index \in Indexes : Pin(c, index)
    \/ \E c \in Cols, index \in Indexes : Unpin(c, index)
    \/ \E c \in Cols, value \in BOOLEAN : SetHidden(c, value)
    \/ GridInitDone
    \/ Return

SpecHidden == Init /\ [][NextHidden]_vars

\* columns constructed before the grid is registered; only the state the
\* `editable` getter reads changes
InitEdit == InitPin /\ InitEditable /\ InitNoLayout /\ hasGrid = FALSE

NextEdit ==
    \/ \E c \in Cols, value \in TriState : SetEditable(c, value)
    \/ AttachGrid
    \/ \E key \in Fields \cup {NoField} : SetPrimaryKey(key)
    \/ \E value \in BOOLEAN : SetRowEditable(value)
    \/ \E value \in BOOLEAN : SetTransactions(value)

SpecEdit == InitEdit /\ [][NextEdit]_vars

\* a column layout with its children as the template declares them: any
\* colStart, any colEnd (0: none), no width yet; the grid with or without a
\* column width of its own
InitLayout ==
    /\ InitPin /\ InitEditable /\ hasGrid = TRUE
    /\ children \in [ChildIds -> {NewChild(s, e) : s \in ColStarts, e \in ColEnds}]
    /\ columnWidthSetByUser \in BOOLEAN
    /\ sizeCall = NoSizeCall
    /\ sizes = <<>>
    /\ threw = FALSE

NextLayout ==
    \/ GetInitialChildColumnSizes
    \/ GetFilledChildColumnSizes
    \/ \E k \in ChildIds : GetResizableColUnderEnd(k)
    \/ \E k \in ChildIds, value \in Widths : SetChildWidth(k, value)
    \/ SizeReturn

SpecLayout == InitLayout /\ [][NextLayout]_vars

\* ------------------------------------------------------------------ claims
\* a step in which column.pin(index) / column.unpin(index) is called and returns
PinStep(c, index) == lastCall' = Call("pin", c, index)
UnpinStep(c, index) == lastCall' = Call("unpin", c, index)

\* the pinned flags and both collections are what they were before the step
NothingMoved ==
    /\ _pinned' = _pinned
    /\ _pinnedColumns' = _pinnedColumns
    /\ _unpinnedColumns' = _unpinnedColumns

\* the call that has returned
Returned(op) == lastCall.op = op

C2_PinOnPinned ==
    [][\A c \in Cols, index \in Indexes :
        (PinStep(c, index) /\ _pinned[c])
        => (result' = FALSE /\ NothingMoved /\ events' = <<>>)]_vars

\* pin() has returned false on a column that was pinned, the grid still
\* being in its initialisation
C2_Witness ==
    /\ Returned("pin")
    /\ lastCall.wasPinned
    /\ _init
    /\ result = FALSE
    /\ events = <<>>

\* C3: pin(index) with index < 0 or index >= the number of pinned columns
\* returns false, changes neither the pinned flag nor the collections and
\* emits no event.
C3_PinIndexOutOfRange ==
    [][\A c \in Cols, index \in Indexes :
        (/\ PinStep(c, index)
         /\ index # Undefined
         /\ (index < 0 \/ index >= Len(pinnedColumns)))
        => (result' = FALSE /\ NothingMoved /\ events' = <<>>)]_vars

\* pin(index) has returned false on an unpinned column because the index is
\* the number of visible pinned columns, one of the pinned columns being hidden
C3_Witness ==
    /\ Returned("pin")
    /\ ~lastCall.wasPinned
    /\ lastCall.index = Len(pinnedColumns)
    /\ lastCall.index < Len(_pinnedColumns)
    /\ result = FALSE
    /\ ~_pinned[lastCall.column]

\* C4: pin() without an index places the column at index 0 of the pinned area.
C4_PinDefaultsToIndexZero ==
    [][\A c \in Cols :
        (PinStep(c, Undefined) /\ ~_pinned[c] /\ result' = TRUE)
        => IndexOf(_pinnedColumns', c) = 0]_vars

\* C5: pin() returns false and leaves the column unpinned when pinning it
\* would make the pinned area wider than 80% of the grid (on a grid that has
\* finished its initialisation, so that the widths are known).
C5_PinnedAreaLimit ==
    [][\A c \in Cols, index \in Indexes :
        (/\ PinStep(c, index)
         /\ ~_init
         /\ ~_pinned[c]
         /\ 5 * (pinnedWidth + width[c]) > 4 * GridWidth)
        => (result' = FALSE /\ _pinned'[c] = FALSE)]_vars

\* C6: unpin() on a pinned, parentless column, with the index omitted or in
\* range of the unpinned area, returns true, clears the pinned flag, leaves the
\* column in the unpinned collection exactly once and not in the pinned one.
C6_UnpinUnpinsColumn ==
    [][\A c \in Cols, index \in Indexes :
        (/\ UnpinStep(c, index)
         /\ _pinned[c]
         /\ parent(c) = NoColumn
         /\ (index = Undefined \/ (index >= 0 /\ index < Len(_unpinnedColumns))))
        => (/\ result' = TRUE
            /\ _pinned'[c] = FALSE
            /\ Count(_unpinnedColumns', c) = 1
            /\ Count(_pinnedColumns', c) = 0)]_vars

\* a pinned column has been unpinned at an index in range
C6_Witness ==
    /\ Returned("unpin")
    /\ lastCall.wasPinned
    /\ lastCall.index # Undefined
    /\ result = TRUE
    /\ ~_pinned[lastCall.column]
    /\ Count(_unpinnedColumns, lastCall.column) = 1
    /\ Len(_unpinnedColumns) > 1

\* C7: unpin() on a column that is not pinned returns false, leaves the
\* pinned flag and both collections as they were and emits no event.
C7_UnpinOnUnpinned ==
    [][\A c \in Cols, index \in Indexes :
        (UnpinStep(c, index) /\ ~_pinned[c])
        => (result' = FALSE /\ NothingMoved /\ events' = <<>>)]_vars

\* unpin() has returned false on a column that was not pinned, with an index
\* that is in range of the unpinned area
C7_Witness ==
    /\ Returned("unpin")
    /\ ~lastCall.wasPinned
    /\ lastCall.index >= 0
    /\ lastCall.index < Len(_unpinnedColumns)
    /\ result = FALSE
    /\ events = <<>>

\* C8: unpin(index) with index < 0 or index >= the number of unpinned
\* columns returns false, leaves the pinned flag (true on a pinned column)
\* and both collections as they were and emits no event.
C8_UnpinIndexOutOfRange ==
    [][\A c \in Cols, index \in Indexes :
        (/\ UnpinStep(c, index)
         /\ index # Undefined
         /\ (index < 0 \/ index >= Len(_unpinnedColumns)))
        => (/\ result' = FALSE
            /\ _pinned'[c] = _pinned[c]
            /\ NothingMoved
            /\ events' = <<>>)]_vars

\* unpin(index) has returned false on a pinned column because the index is
\* the number of unpinned columns, and the column is still pinned
C8_Witness ==
    /\ Returned("unpin")
    /\ lastCall.wasPinned
    /\ lastCall.index = Len(_unpinnedColumns)
    /\ Len(_unpinnedColumns) > 0
    /\ result = FALSE
    /\ _pinned[lastCall.column]
    /\ Count(_pinnedColumns, lastCall.column) = 1

\* C9: unpin() without an index places the column at index 0 of the
\* unpinned area.
C9_UnpinDefaultsToIndexZero ==
    [][\A c \in Cols :
        (UnpinStep(c, Undefined) /\ _pinned[c] /\ result' = TRUE)
        => IndexOf(_unpinnedColumns', c) = 0]_vars

\* C10: a column bound to the grid's primary key is not editable while the
\* grid has row editing or transactions enabled, whatever was assigned to
\* its editable property.
C10_PrimaryKeyNotEditable ==
    \A c \in Cols :
        (/\ hasGrid
         /\ field(c) # NoField
         /\ field(c) = primaryKey
         /\ (rowEditable \/ transactionsEnabled))
        => editable(c) = "false"

\* the primary key column was assigned editable = true and the grid has
\* transactions enabled but no row editing
C10_Witness ==
    \E c \in Cols :
        /\ hasGrid
        /\ field(c) = primaryKey
        /\ _editable[c] = "true"
        /\ transactionsEnabled /\ ~rowEditable
        /\ editable(c) = "false"


\* ---------------------------------------------- claims on the layout sizes
\* a step in which the named column-size method is called and returns
SizeStep(op) == sizeCall'.op = op
\* the calculated-width cache of a column is empty: getCalcWidth() will
\* call cacheCalcWidth()
CacheEmpty(col) == col._calcWidth = Null \/ col.calcPixelWidth = NaN
\* col as `after`, but for a cache that was empty and has been written
OnlyCacheFilled(col, after) ==
    \/ after = col
    \/ /\ CacheEmpty(col)
       /\ ~CacheEmpty(after)
       /\ after = [col EXCEPT !._calcWidth = after._calcWidth,
                              !.calcPixelWidth = after.calcPixelWidth]
SizeMethods == {"getInitialChildColumnSizes", "getFilledChildColumnSizes"}
\* every child's span is at least 1: colEnd is not bound, or lies after colStart
SpansPositive == \A k \in DOMAIN children : gridColumnSpan(children[k]) >= 1

\* C11: getInitialChildColumnSizes and getFilledChildColumnSizes are pure:
\* a call changes no state of the column, of the children or of the grid,
\* the children's cached calculated widths included, and a second call on
\* the same children returns what the first returned.
C11_SizesPure ==
    [][\A op \in SizeMethods :
        SizeStep(op)
        => /\ children' = children
           /\ UNCHANGED <<columnWidthSetByUser, pinVars, editVars>>
           /\ (sizeCall.op = op => sizes' = sizes)]_vars

\* C11 as amended: a call changes nothing but the calculated-width cache
\* (_calcWidth, calcPixelWidth) of a child whose cache was empty, which it
\* fills; a second call on the same children returns what the first
\* returned.
C11_SizesPureButForCache ==
    [][\A op \in SizeMethods :
        SizeStep(op)
        => /\ DOMAIN children' = DOMAIN children
           /\ \A k \in DOMAIN children : OnlyCacheFilled(children[k], children'[k])
           /\ UNCHANGED <<columnWidthSetByUser, pinVars, editVars>>
           /\ (sizeCall.op = op => sizes' = sizes)]_vars

\* getInitialChildColumnSizes has returned sizes with a width and has filled
\* the cache of a child that never had a width assigned
C11_Witness ==
    /\ sizeCall.op = "getInitialChildColumnSizes"
    /\ columnWidthSetByUser
    /\ \E k \in DOMAIN children :
        /\ ~children[k].widthSetByUser
        /\ ~CacheEmpty(children[k])
        /\ \E i \in 1..Len(sizes) :
            sizes[i].ref = k /\ sizes[i].width = children[k].calcPixelWidth

\* C12: every defined entry of the array getInitialChildColumnSizes returns
\* has colSpan 1, whatever the children's colStart, spans, widths and order.
C12_ColSpanOne ==
    sizeCall.op = "getInitialChildColumnSizes"
    => \A i \in 1..Len(sizes) : sizes[i] # NoEntry => sizes[i].colSpan = 1

\* C12 as amended: no defined entry has a colSpan above 1, and every
\* defined entry has colSpan 1 when every child spans at least one grid
\* column (its colEnd is not bound or lies after its colStart).
C12_ColSpanAtMostOne ==
    sizeCall.op = "getInitialChildColumnSizes"
    => \A i \in 1..Len(sizes) :
        sizes[i] # NoEntry
        => /\ sizes[i].colSpan <= 1
           /\ SpansPositive => sizes[i].colSpan = 1

\* a child spanning two grid columns or more, all spans positive, has been
\* flattened: it holds its own index and a later one, each with colSpan 1
C12_Witness ==
    /\ sizeCall.op = "getInitialChildColumnSizes"
    /\ SpansPositive
    /\ \E k \in DOMAIN children :
        /\ gridColumnSpan(children[k]) > 1
        /\ Len(sizes) > children[k].colStart
        /\ sizes[children[k].colStart].ref = k
        /\ sizes[children[k].colStart].colSpan = 1
        /\ sizes[children[k].colStart + 1].ref = k
        /\ sizes[children[k].colStart + 1].colSpan = 1

\* C13: getResizableColUnderEnd of a layout child always completes with a
\* result: every index of the size array under the child holds a defined
\* entry, so that no undefined entry is dereferenced.
C13_ResizableAlwaysCompletes ==
    sizeCall.op = "getResizableColUnderEnd" => ~threw

====
